---- MODULE Spec2Model ----
(***************************************************************************)
(* Model of houselytics' feature-reconciliation layer, src/src/preprocess.py *)
(* (build_feature_frame, preprocess_inherited, _safe_map and the four     *)
(* encoding tables), as the Price Predictor page calls it, and of the runs *)
(* of the streamlit script around it (app.py, app_pages): the page the     *)
(* radio selects, the cached loaders, the three buttons of the predictor   *)
(* page, model.predict and the table the portfolio branch displays.        *)
(*                                                                         *)
(* A pandas cell is a record [kind, num, txt]: a number, a text or the     *)
(* missing value NaN.  Numbers are compared by value, as Python compares   *)
(* 9 and 9.0.  A table (DataFrame) is [columns, data]: the ordered column  *)
(* names and one row per index entry, each row a function from the column  *)
(* names to cells.                                                         *)
(***************************************************************************)
EXTENDS Integers, Sequences, FiniteSets, TLC

VARIABLES
    pc,                 \* position of the page's request: idle, or inside a call
    feature_columns,    \* the ordered feature names (load_training_data)
    train_features_df,  \* the training features table (load_training_data)
    user_values,        \* the argument of the running build_feature_frame call
    inherited_df,       \* the raw table handed to preprocess_inherited
    df,                 \* the local df of the running call
    result,             \* the frame the last call returned
    other_df,           \* a second raw table, handed to a second call
    page,               \* the page the sidebar radio selects
    pressed,            \* the button whose press started the last run of the script
    train_csv,          \* the content of data/processed/clean_train.csv
    inherited_csv,      \* the content of data/raw/inherited_houses.csv
    cache,              \* what each cached loader holds
    loads,              \* how often the body of each cached loader has run
    calls,              \* the calls the last run of the predictor page made, in order
    preds,              \* what model.predict returned to the last run
    out,                \* the table the last run displays under "Detailed Metadata"
    error               \* the exception that ended the last run, or "none"

\* the state of the pages around the two functions
pagevars == <<page, pressed, train_csv, inherited_csv, cache, loads, calls, preds, out, error>>

vars == <<pc, feature_columns, train_features_df, user_values, inherited_df, df, result,
          other_df, pagevars>>

-----------------------------------------------------------------------------
(* Cells *)

NaN == [kind |-> "nan", num |-> 0, txt |-> ""]
Num(n) == [kind |-> "num", num |-> n, txt |-> ""]
Str(s) == [kind |-> "str", num |-> 0, txt |-> s]

\* pandas isna: the cell is missing (None and NaN alike)
IsNull(c) == c.kind = "nan"

Range(s) == {s[i] : i \in 1..Len(s)}

-----------------------------------------------------------------------------
(* The encoding tables *)

BSMT_EXPOSURE_MAP == [No |-> 0, Mn |-> 1, Av |-> 2, Gd |-> 3]
BSMT_FIN_MAP == [Unf |-> 0, LwQ |-> 1, Rec |-> 2, BLQ |-> 3, ALQ |-> 4, GLQ |-> 5]
GARAGE_FINISH_MAP == [Unf |-> 0, RFn |-> 1, Fin |-> 2]
\* a kitchen table numbered from 0 like the other three
KITCHEN_QUAL_MAP_ZeroBased == [Po |-> 0, Fa |-> 1, TA |-> 2, Gd |-> 3, Ex |-> 4]
KITCHEN_QUAL_MAP == [Po |-> 1, Fa |-> 2, TA |-> 3, Gd |-> 4, Ex |-> 5]

-----------------------------------------------------------------------------
(* Series and DataFrame operations *)

\* a map that falls back to the cell itself where the dict has no key for it
SeriesMapKeepNumbers(series, mapping) ==
    [i \in 1..Len(series) |->
        IF series[i].kind = "str" /\ series[i].txt \in DOMAIN mapping
        THEN Num(mapping[series[i].txt])
        ELSE IF series[i].kind = "num" THEN series[i] ELSE NaN]

\* Series.map(dict): a cell that is a key of the dict becomes its value, any
\* other cell (another text, a number, a missing cell) becomes NaN
SeriesMap(series, mapping) ==
    [i \in 1..Len(series) |->
        IF series[i].kind = "str" /\ series[i].txt \in DOMAIN mapping
        THEN Num(mapping[series[i].txt])
        ELSE NaN]

\* an assignment of value to the whole column in place of the fillna
SeriesFillnaAll(series, value) == [i \in 1..Len(series) |-> value]

\* Series.fillna(value): every missing cell becomes value
SeriesFillna(series, value) ==
    [i \in 1..Len(series) |-> IF IsNull(series[i]) THEN value ELSE series[i]]

\* a _safe_map that returns the mapped series without the fillna
SafeMapNoDefault(series, mapping, default_value) == SeriesMap(series, mapping)

\* a _safe_map that gives the default to unknown values only and leaves a
\* missing cell missing
SafeMapKeepMissing(series, mapping, default_value) ==
    LET mapped == SeriesMap(series, mapping)
    IN  [i \in 1..Len(series) |->
            IF IsNull(series[i]) THEN NaN
            ELSE IF IsNull(mapped[i]) THEN Num(default_value) ELSE mapped[i]]

\* _safe_map
SafeMap(series, mapping, default_value) ==
    LET mapped == SeriesMap(series, mapping)
    IN  SeriesFillna(mapped, Num(default_value))

\* df[col]
Column(t, col) == [i \in 1..Len(t.data) |-> t.data[i][col]]

\* df[col] = series
SetColumn(t, col, series) ==
    [t EXCEPT !.data = [i \in 1..Len(t.data) |-> [t.data[i] EXCEPT ![col] = series[i]]]]

\* the numbers of a series, missing cells skipped, in ascending order
RECURSIVE SortedValues(_)
SortedValues(S) ==
    IF S = <<>> THEN <<>>
    ELSE LET rest == SortedValues(Tail(S))
             x == Head(S)
             k == Cardinality({j \in 1..Len(rest) : rest[j] <= x})
         IN  SubSeq(rest, 1, k) \o <<x>> \o SubSeq(rest, k + 1, Len(rest))

NonNull(series) == SelectSeq(series, LAMBDA c : ~IsNull(c))

\* Series.median(): the middle value of the non-missing cells, the mean of the
\* two middle values when their count is even, NaN when there is none
SeriesMedian(series) ==
    LET present == NonNull(series)
        v == SortedValues([i \in 1..Len(present) |-> present[i].num])
        n == Len(v)
    IN  IF n = 0 THEN NaN
        ELSE IF n % 2 = 1 THEN Num(v[(n + 1) \div 2])
        ELSE Num((v[n \div 2] + v[n \div 2 + 1]) \div 2)

\* a column read_csv gives a numeric dtype: it has rows and no text cell
IsNumericColumn(t, col) ==
    /\ Len(t.data) > 0
    /\ \A i \in 1..Len(t.data) : t.data[i][col].kind # "str"

\* DataFrame.median(numeric_only=True): a Series indexed by the numeric columns
FrameMedian(t) ==
    [col \in {c \in Range(t.columns) : IsNumericColumn(t, c)} |->
        SeriesMedian(Column(t, col))]

\* a build without the final fillna
FrameFillnaSkipped(t, value) == t

\* DataFrame.fillna(value)
FrameFillna(t, value) ==
    [t EXCEPT !.data = [i \in 1..Len(t.data) |->
        [col \in DOMAIN t.data[i] |->
            IF IsNull(t.data[i][col]) THEN value ELSE t.data[i][col]]]]

\* a reindex without fill_value: a created column holds NaN
FrameReindexNaN(t, columns, fill_value) ==
    [columns |-> columns,
     data |-> [i \in 1..Len(t.data) |->
        [col \in Range(columns) |->
            IF col \in Range(t.columns) THEN t.data[i][col] ELSE NaN]]]

\* a reindex that appends the columns of the frame it was not asked for
FrameReindexKeepExtra(t, columns, fill_value) ==
    LET extra == SelectSeq(t.columns, LAMBDA c : c \notin Range(columns))
    IN  [columns |-> columns \o extra,
         data |-> [i \in 1..Len(t.data) |->
            [col \in Range(columns) \cup Range(extra) |->
                IF col \in Range(t.columns) THEN t.data[i][col] ELSE fill_value]]]

\* DataFrame.reindex(columns=..., fill_value=...): the named columns in the
\* given order; a column the frame lacks is created holding fill_value
FrameReindex(t, columns, fill_value) ==
    [columns |-> columns,
     data |-> [i \in 1..Len(t.data) |->
        [col \in Range(columns) |->
            IF col \in Range(t.columns) THEN t.data[i][col] ELSE fill_value]]]

-----------------------------------------------------------------------------
(* build_feature_frame *)

\* float(x) of a median or of 0: the same number, NaN stays NaN
Float(c) == IF c.kind = "num" THEN Num(c.num) ELSE NaN

\* a get whose default is a sentinel instead of 0
SeriesGetSentinel(series, col, default) ==
    IF col \in DOMAIN series THEN series[col] ELSE Num(-1)

\* defaults.get(col, 0)
SeriesGet(series, col, default) ==
    IF col \in DOMAIN series THEN series[col] ELSE default

\* a build that starts from zeros instead of the medians
DefaultRowZeros(columns, defaults) == [col \in Range(columns) |-> Num(0)]

\* the first loop: every feature column starts at its median, or at 0
DefaultRow(columns, defaults) ==
    [col \in Range(columns) |-> Float(SeriesGet(defaults, col, Num(0)))]

\* the overwrite loop left out
OverwriteRowIgnored(row, values) == row

\* an overwrite loop that keeps the default where the user value is missing
OverwriteRowSkipNull(row, values) ==
    [key \in DOMAIN row |->
        IF key \in DOMAIN values /\ ~IsNull(values[key]) THEN values[key] ELSE row[key]]

\* the second loop: a user value overwrites the entry of a key the row has
OverwriteRow(row, values) ==
    [key \in DOMAIN row |-> IF key \in DOMAIN values THEN values[key] ELSE row[key]]

\* a frame built from the columns of the row: without a column it has no row
OneRowFrameFromColumns(row, columns) ==
    [columns |-> columns,
     data |-> IF columns = <<>> THEN <<>> ELSE <<[col \in Range(columns) |-> row[col]]>>]

\* the dict row when the two loops are done (lines 33-41)
BuiltRow(values, columns, train) ==
    OverwriteRow(DefaultRow(columns, FrameMedian(train)), values)

\* a build that fills the caller's dict instead of a dict of its own
CallerValuesAliased(argument, row) == row

\* row = {} (line 34): the loops write into a dict of their own, so the
\* caller's user_values stays as it was handed in
CallerValues(argument, row) == argument

\* pd.DataFrame([row], columns=feature_columns)
OneRowFrame(row, columns) ==
    [columns |-> columns, data |-> <<[col \in Range(columns) |-> row[col]]>>]

\* a build without the "if key in row" test and without columns=: every user
\* key becomes an entry of the row, and every entry a column of the frame
RECURSIVE KeysInSomeOrder(_)
KeysInSomeOrder(K) ==
    IF K = {} THEN <<>>
    ELSE LET k == CHOOSE x \in K : TRUE IN <<k>> \o KeysInSomeOrder(K \ {k})
build_feature_frame_all_keys(values, columns, train) ==
    LET defaults == FrameMedian(train)
        row0 == DefaultRow(columns, defaults)
        row == [key \in DOMAIN row0 \cup DOMAIN values |->
                    IF key \in DOMAIN values THEN values[key] ELSE row0[key]]
        all == columns \o KeysInSomeOrder(DOMAIN values \ Range(columns))
    IN  FrameFillna(OneRowFrame(row, all), Num(0))

build_feature_frame(values, columns, train) ==
    LET defaults == FrameMedian(train)
        row == OverwriteRow(DefaultRow(columns, defaults), values)
    IN  FrameFillna(OneRowFrame(row, columns), Num(0))

-----------------------------------------------------------------------------
(* preprocess_inherited *)

\* one "if col in df.columns: df[col] = _safe_map(df[col], mapping, default)"
EncodeColumn(t, col, mapping, default_value) ==
    IF col \in Range(t.columns)
    THEN SetColumn(t, col, SafeMap(Column(t, col), mapping, default_value))
    ELSE t

\* the four encoding statements, in the order of the source
EncodeCategoricals(t) ==
    LET t1 == EncodeColumn(t, "BsmtExposure", BSMT_EXPOSURE_MAP, 0)
        t2 == EncodeColumn(t1, "BsmtFinType1", BSMT_FIN_MAP, 0)
        t3 == EncodeColumn(t2, "GarageFinish", GARAGE_FINISH_MAP, 0)
    IN  EncodeColumn(t3, "KitchenQual", KITCHEN_QUAL_MAP, 3)

\* a fill that ignores the medians
FillValueAlwaysZero(col, medians) == Num(0)

\* the fill value of one column: its training median if it has one, else 0
FillValue(col, medians) ==
    IF col \in DOMAIN medians THEN medians[col] ELSE Num(0)

\* the loop "for col in df.columns: df[col] = df[col].fillna(...)"
RECURSIVE FillColumns(_, _, _)
FillColumns(t, cols, medians) ==
    IF cols = <<>> THEN t
    ELSE FillColumns(
            SetColumn(t, Head(cols),
                      SeriesFillna(Column(t, Head(cols)), FillValue(Head(cols), medians))),
            Tail(cols), medians)

FillMissing(t, train) == FillColumns(t, t.columns, FrameMedian(train))

\* a call without line 59: the assignments to df[col] land in the caller's table
CallerTableAliased(argument, local) == local

\* df = df.copy() (line 59): the local df is a table of its own, so the caller's
\* table stays as it was handed in, whatever the call has made of the local one
CallerTable(argument, local) == argument

preprocess_inherited(raw, columns, train) ==
    FrameReindex(FillMissing(EncodeCategoricals(raw), train), columns, Num(0))

-----------------------------------------------------------------------------
(* Bounds and the input sets *)

MaxFeatures == 2      \* feature_columns has at most this many names
MaxUserKeys == 2      \* user_values has at most this many keys
MaxTrainCells == 2    \* the training table: at most this many rows, columns, cells
MaxRawCells == 2      \* the raw table: at most this many rows, columns, cells
MaxLoads == 2         \* a loader whose body raises is called at most this often

CategoricalColumns == {"BsmtExposure", "BsmtFinType1", "GarageFinish", "KitchenQual"}

\* the column names of the model, in the order a table lists those it has
ColumnOrder == <<"BsmtExposure", "BsmtFinType1", "GarageFinish", "KitchenQual", "GrLivArea">>
ColumnNames == Range(ColumnOrder)

\* the columns a training table may have: one categorical, one plain
TrainColumnNames == {"KitchenQual", "GrLivArea"}

\* feature_columns: the sequences of distinct names of length at most n
ColumnSeqs(n) ==
    {s \in UNION {[1..k -> ColumnNames] : k \in 0..n} :
        \A i, j \in 1..Len(s) : i # j => s[i] # s[j]}

\* training cells are even, so that the mean of two of them is an integer
TrainCells(col) == {NaN, Num(2), Num(4), Str("RL")}
UserCells == {NaN, Num(9)}
RawCells(col) ==
    {NaN, Num(1), Str("XYZ")} \cup
    (CASE col = "BsmtExposure" -> {Str(l) : l \in DOMAIN BSMT_EXPOSURE_MAP}
       [] col = "BsmtFinType1" -> {Str(l) : l \in DOMAIN BSMT_FIN_MAP}
       [] col = "GarageFinish" -> {Str(l) : l \in DOMAIN GARAGE_FINISH_MAP}
       [] col = "KitchenQual" -> {Str(l) : l \in DOMAIN KITCHEN_QUAL_MAP}
       [] OTHER -> {})
AllCells == UserCells \cup UNION {TrainCells(c) \cup RawCells(c) : c \in ColumnNames}

\* the tables with columns among names, at most maxCells rows, columns and
\* cells, the cells of column col drawn from cells[col]
TablesOver(names, maxCells, cells) ==
    LET Shapes == {sh \in (SUBSET names) \X (0..maxCells) :
                        /\ Cardinality(sh[1]) <= maxCells
                        /\ Cardinality(sh[1]) * sh[2] <= maxCells}
        Rows(K) == {r \in [K -> AllCells] : \A c \in K : r[c] \in cells[c]}
    IN  UNION {{[columns |-> SelectSeq(ColumnOrder, LAMBDA c : c \in sh[1]), data |-> d] :
                    d \in [1..sh[2] -> Rows(sh[1])]} : sh \in Shapes}

TrainTables ==
    TablesOver(TrainColumnNames, MaxTrainCells, [col \in ColumnNames |-> TrainCells(col)])

RawTables ==
    TablesOver(ColumnNames, MaxRawCells, [col \in ColumnNames |-> RawCells(col)])

\* the raw tables compared pairwise: a missing cell, a number or one known
\* label in each cell
PairCells(col) == RawCells(col) \cap {NaN, Num(1), Str("Gd"), Str("GLQ"), Str("Fin")}
PairTables ==
    TablesOver(ColumnNames, MaxRawCells, [col \in ColumnNames |-> PairCells(col)])

\* the training tables of the comparison: one row, every median 4
PairTrainTables ==
    {t \in TrainTables : /\ Len(t.data) = 1
                         /\ \A col \in Range(t.columns) : t.data[1][col] = Num(4)}

UserValueSets ==
    UNION {[keys -> UserCells] : keys \in {K \in SUBSET ColumnNames : Cardinality(K) <= MaxUserKeys}}

EmptyFrame == [columns |-> <<>>, data |-> <<>>]

\* the functions streamlit caches (st.cache_resource, st.cache_data), each with
\* a cache of its own, of the pages app.py can select
Loaders ==
    {"predictor.load_model", "predictor.load_training_data",
     "performance.load_model", "performance.load_train_data",
     "insights.load_data"}

\* what a loader returns: a model, or a table with, for load_training_data,
\* its column names beside it
Loaded(m, cols, t) == [model |-> m, feature_cols |-> cols, table |-> t]

\* a cache entry: whether the loader has returned, and what it returned
NotCached == [hit |-> FALSE, value |-> Loaded("", <<>>, EmptyFrame)]
Cached(v) == [hit |-> TRUE, value |-> v]
NothingCached == [l \in Loaders |-> NotCached]

\* a call of a cached function: the body runs only when the cache holds no
\* entry; what it returns is stored, and an exception stores nothing
CacheAfter(c, loader, value, raises) ==
    IF c[loader].hit \/ raises THEN c ELSE [c EXCEPT ![loader] = Cached(value)]
LoadsAfter(c, l, loader) ==
    IF c[loader].hit THEN l ELSE [l EXCEPT ![loader] = @ + 1]

\* joblib.load("src/house_price_model.pkl")
HousePriceModel == Loaded("src/house_price_model.pkl", <<>>, EmptyFrame)

\* a drop with errors="ignore": a missing label is passed over
DropRaisesNever(t, name) == FALSE

\* DataFrame.drop(name, axis=1) raises KeyError when the table has no such column
DropRaises(t, name) == name \notin Range(t.columns)

\* DataFrame.drop(name, axis=1)
FrameDrop(t, name) ==
    [columns |-> SelectSeq(t.columns, LAMBDA c : c # name),
     data |-> [i \in 1..Len(t.data) |->
                [c \in DOMAIN t.data[i] \ {name} |-> t.data[i][c]]]]

\* the body of load_training_data, lines 39-42
load_training_data(csv) ==
    Loaded("", FrameDrop(csv, "SalePrice").columns, FrameDrop(csv, "SalePrice"))

\* the body of the three loaders that return read_csv(...) as it is
load_data(csv) == Loaded("", <<>>, csv)

\* clean_train.csv: a training table, with or without its SalePrice column
WithSalePrice(t) ==
    [columns |-> t.columns \o <<"SalePrice">>,
     data |-> [i \in 1..Len(t.data) |->
                [c \in DOMAIN t.data[i] \cup {"SalePrice"} |->
                    IF c = "SalePrice" THEN Num(2) ELSE t.data[i][c]]]]
FileTrainCells == {NaN, Num(4)}
TrainFiles ==
    LET tables == TablesOver(TrainColumnNames, MaxTrainCells,
                             [col \in ColumnNames |-> FileTrainCells])
    IN  tables \cup {WithSalePrice(t) : t \in tables}

\* inherited_houses.csv: a raw table over the columns a training table may
\* have, a cell missing, a number, a label of the column or another text
FileRawCells(col) ==
    {NaN, Num(1), Str("XYZ")} \cup (IF col = "KitchenQual" THEN {Str("Ex")} ELSE {})
InheritedFiles ==
    TablesOver(TrainColumnNames, MaxRawCells, [col \in ColumnNames |-> FileRawCells(col)])

\* the pages of app.py and the buttons of the predictor page; the second
\* button has no key and goes by its label
Pages == {"Project Summary", "Data Insights", "Price Predictor", "Model Performance"}
Buttons == {"btn_quick", "Run Detailed Valuation", "btn_inherited"}

\* a button that reads as pressed in every run
ButtonPressedAlways(button, b) == TRUE

\* st.button(...): true in the run its press started, false in any other run
ButtonPressed(button, b) == button = b

\* the widgets of the Quick Estimate tab: the first and the last quality, the
\* least and the default living area, the defaults of the other two
quality_map ==
    [l \in {"Basic (Low)", "Standard (Average)", "Good (Above Average)", "Premium (High)"} |->
        CASE l = "Basic (Low)" -> 3
          [] l = "Standard (Average)" -> 5
          [] l = "Good (Above Average)" -> 7
          [] l = "Premium (High)" -> 9]
QuickWidgets ==
    [quality_label : {"Basic (Low)", "Premium (High)"}, gr_liv_area : {300, 1500},
     year_built : {2000}, garage_area : {400}]
QuickDefaults ==
    [quality_label |-> "Basic (Low)", gr_liv_area |-> 1500, year_built |-> 2000,
     garage_area |-> 400]

\* user_values of the Generate Valuation branch, lines 163-168
QuickValues(w) ==
    [key \in {"OverallQual", "GrLivArea", "GarageArea", "YearBuilt"} |->
        CASE key = "OverallQual" -> Num(quality_map[w.quality_label])
          [] key = "GrLivArea" -> Num(w.gr_liv_area)
          [] key = "GarageArea" -> Num(w.garage_area)
          [] key = "YearBuilt" -> Num(w.year_built)]

\* the widgets of the Detailed Analysis tab: the least and the default living
\* area, the defaults of the others
DetailedWidgets ==
    [ov_qual : {5}, ov_cond : {5}, yr_blt : {2000}, liv_area : {300, 1500},
     lot_size : {9000}, bed : {3}, bsmt : {900}, gar : {400}, yr_rem : {2005}]
DetailedDefaults ==
    [ov_qual |-> 5, ov_cond |-> 5, yr_blt |-> 2000, liv_area |-> 1500,
     lot_size |-> 9000, bed |-> 3, bsmt |-> 900, gar |-> 400, yr_rem |-> 2005]

\* user_values of the Run Detailed Valuation branch, lines 199-205
DetailedValues(w) ==
    [key \in {"OverallQual", "OverallCond", "YearBuilt", "YearRemodAdd", "GrLivArea",
              "BedroomAbvGr", "LotArea", "TotalBsmtSF", "GarageArea"} |->
        CASE key = "OverallQual" -> Num(w.ov_qual)
          [] key = "OverallCond" -> Num(w.ov_cond)
          [] key = "YearBuilt" -> Num(w.yr_blt)
          [] key = "YearRemodAdd" -> Num(w.yr_rem)
          [] key = "GrLivArea" -> Num(w.liv_area)
          [] key = "BedroomAbvGr" -> Num(w.bed)
          [] key = "LotArea" -> Num(w.lot_size)
          [] key = "TotalBsmtSF" -> Num(w.bsmt)
          [] key = "GarageArea" -> Num(w.gar)]

\* model.predict: one price per row of the matrix, in the order of the rows.
\* The artifact is a file, so a price is any function of the row's cells; this
\* one, in halves of a dollar, tells the rows and the columns apart.
RECURSIVE PriceInHalves(_, _, _)
PriceInHalves(row, columns, j) ==
    IF j > Len(columns) THEN 0
    ELSE (2 * j + 1) * row[columns[j]].num + PriceInHalves(row, columns, j + 1)
Predict(frame) ==
    [i \in 1..Len(frame.data) |-> PriceInHalves(frame.data[i], frame.columns, 1)]

\* a matrix the model may refuse with an exception: no row, no column, or a
\* cell that is a text or missing
Unclean(frame) ==
    \/ Len(frame.data) = 0
    \/ frame.columns = <<>>
    \/ \E i \in 1..Len(frame.data) : \E c \in Range(frame.columns) :
        frame.data[i][c].kind # "num"
PredictMayRaise(frame) == IF Unclean(frame) THEN {TRUE, FALSE} ELSE {FALSE}

\* preds.round(0).astype(int): numpy rounds a half to the even neighbour
RoundHalfEven(h) ==
    IF h % 2 = 0 THEN h \div 2
    ELSE IF ((h - 1) \div 2) % 2 = 0 THEN (h - 1) \div 2 ELSE (h + 1) \div 2
RoundToInt(values) == [i \in 1..Len(values) |-> RoundHalfEven(values[i])]

\* an annotation that counts the rows from the end
AnnotateReversed(table, values) ==
    [columns |-> table.columns \o <<"Predicted_Value">>,
     data |-> [i \in 1..Len(table.data) |->
                [c \in DOMAIN table.data[i] \cup {"Predicted_Value"} |->
                    IF c = "Predicted_Value" THEN Num(values[Len(values) + 1 - i])
                    ELSE table.data[i][c]]]]

\* out = inherited_df.copy(); out["Predicted_Value"] = values (lines 247-249)
Annotate(table, values) ==
    [columns |-> table.columns \o <<"Predicted_Value">>,
     data |-> [i \in 1..Len(table.data) |->
                [c \in DOMAIN table.data[i] \cup {"Predicted_Value"} |->
                    IF c = "Predicted_Value" THEN Num(values[i]) ELSE table.data[i][c]]]]

\* an entry of calls: the function, and the frame it returned or was given
Call(fn, frame) == [fn |-> fn, frame |-> frame]

-----------------------------------------------------------------------------
(* The state machine *)

Init ==
    /\ pc = "idle"
    /\ feature_columns \in ColumnSeqs(MaxFeatures)
    /\ train_features_df \in TrainTables
    /\ user_values = <<>>
    /\ inherited_df = EmptyFrame
    /\ df = EmptyFrame
    /\ result = EmptyFrame
    /\ other_df = EmptyFrame
    /\ page = "Price Predictor"
    /\ pressed = "none"
    /\ train_csv = EmptyFrame
    /\ inherited_csv = EmptyFrame
    /\ cache = NothingCached
    /\ loads = [l \in Loaders |-> 0]
    /\ calls = <<>>
    /\ preds = <<>>
    /\ out = EmptyFrame
    /\ error = "none"

\* as Init, with the training tables of the pairwise comparison
InitPair ==
    /\ pc = "idle"
    /\ feature_columns \in ColumnSeqs(MaxFeatures)
    /\ train_features_df \in PairTrainTables
    /\ user_values = <<>>
    /\ inherited_df = EmptyFrame
    /\ df = EmptyFrame
    /\ result = EmptyFrame
    /\ other_df = EmptyFrame
    /\ page = "Price Predictor"
    /\ pressed = "none"
    /\ train_csv = EmptyFrame
    /\ inherited_csv = EmptyFrame
    /\ cache = NothingCached
    /\ loads = [l \in Loaders |-> 0]
    /\ calls = <<>>
    /\ preds = <<>>
    /\ out = EmptyFrame
    /\ error = "none"

\* a valuation button: build_feature_frame(user_values, ...) runs to its return
BuildFeatureFrame ==
    /\ pc = "idle"
    /\ \E values \in UserValueSets :
        /\ user_values' =
            CallerValues(values, BuiltRow(values, feature_columns, train_features_df))
        /\ result' = build_feature_frame(values, feature_columns, train_features_df)
    /\ pc' = "built"
    /\ UNCHANGED <<feature_columns, train_features_df, inherited_df, df, other_df, pagevars>>

\* preprocess_inherited, lines 59-72: df = df.copy(), then the encoding
PreprocessEncode ==
    /\ pc = "idle"
    /\ \E raw \in RawTables :
        /\ df' = EncodeCategoricals(raw)
        /\ inherited_df' = CallerTable(raw, df')
    /\ pc' = "fill"
    /\ UNCHANGED <<feature_columns, train_features_df, user_values, result, other_df, pagevars>>

\* lines 74-80: the median fill
PreprocessFill ==
    /\ pc = "fill"
    /\ df' = FillMissing(df, train_features_df)
    /\ inherited_df' = CallerTable(inherited_df, df')
    /\ pc' = "reindex"
    /\ UNCHANGED <<feature_columns, train_features_df, user_values, result, other_df, pagevars>>

\* lines 82-84: the reindex and the return
PreprocessReindex ==
    /\ pc = "reindex"
    /\ df' = FrameReindex(df, feature_columns, Num(0))
    /\ result' = df'
    /\ pc' = "preprocessed"
    /\ UNCHANGED <<feature_columns, train_features_df, user_values, inherited_df, other_df, pagevars>>

\* a second call, preprocess_inherited(inherited_df, feature_columns,
\* train_features_df), on the table the caller still holds after the first
\* one; the caller keeps the first frame in result, df is the second frame
PreprocessAgain ==
    /\ pc = "preprocessed"
    /\ df' = preprocess_inherited(inherited_df, feature_columns, train_features_df)
    /\ inherited_df' =
        CallerTable(inherited_df,
                    FillMissing(EncodeCategoricals(inherited_df), train_features_df))
    /\ pc' = "repeated"
    /\ UNCHANGED <<feature_columns, train_features_df, user_values, result, other_df, pagevars>>

\* a second call on the frame the first one returned,
\* preprocess_inherited(result, feature_columns, train_features_df); the
\* caller keeps the first frame in result, df is the second frame
PreprocessOutput ==
    /\ pc = "preprocessed"
    /\ df' = preprocess_inherited(result, feature_columns, train_features_df)
    /\ result' =
        CallerTable(result, FillMissing(EncodeCategoricals(result), train_features_df))
    /\ pc' = "reapplied"
    /\ UNCHANGED <<feature_columns, train_features_df, user_values, inherited_df, other_df, pagevars>>

\* two calls with the same feature_columns and training table,
\* preprocess_inherited(inherited_df, ...) and preprocess_inherited(other_df,
\* ...), on two raw tables of as many rows; result is the frame of the first
\* call, df the frame of the second
PreprocessPair ==
    /\ pc = "idle"
    /\ \E raw \in PairTables :
        \E other \in {o \in PairTables : Len(o.data) = Len(raw.data)} :
            /\ result' = preprocess_inherited(raw, feature_columns, train_features_df)
            /\ inherited_df' =
                CallerTable(raw, FillMissing(EncodeCategoricals(raw), train_features_df))
            /\ df' = preprocess_inherited(other, feature_columns, train_features_df)
            /\ other_df' =
                CallerTable(other, FillMissing(EncodeCategoricals(other), train_features_df))
    /\ pc' = "varied"
    /\ UNCHANGED <<feature_columns, train_features_df, user_values, pagevars>>

\* the page is rendered; the next press starts from the loaded schema
Rerun ==
    /\ pc \in {"built", "preprocessed", "repeated", "reapplied", "varied"}
    /\ pc' = "idle"
    /\ user_values' = <<>>
    /\ inherited_df' = EmptyFrame
    /\ df' = EmptyFrame
    /\ result' = EmptyFrame
    /\ other_df' = EmptyFrame
    /\ UNCHANGED <<feature_columns, train_features_df, pagevars>>

\* the process has started and shows the first page of the radio
InitPage ==
    /\ pc = "idle"
    /\ feature_columns = <<>>
    /\ train_features_df = EmptyFrame
    /\ user_values = <<>>
    /\ inherited_df = EmptyFrame
    /\ df = EmptyFrame
    /\ result = EmptyFrame
    /\ other_df = EmptyFrame
    /\ page = "Project Summary"
    /\ pressed = "none"
    /\ train_csv \in TrainFiles
    /\ inherited_csv \in InheritedFiles
    /\ cache = NothingCached
    /\ loads = [l \in Loaders |-> 0]
    /\ calls = <<>>
    /\ preds = <<>>
    /\ out = EmptyFrame
    /\ error = "none"

\* a run of the script that calls neither function of preprocess.py
NoCalls ==
    /\ user_values' = <<>>
    /\ inherited_df' = EmptyFrame
    /\ df' = EmptyFrame
    /\ result' = EmptyFrame
    /\ calls' = <<>>
    /\ preds' = <<>>
    /\ out' = EmptyFrame

\* app.py, pages[choice]() with the Project Summary page: no loader is called
SelectSummary ==
    /\ page' = "Project Summary"
    /\ pressed' = "none"
    /\ error' = "none"
    /\ NoCalls
    /\ UNCHANGED <<pc, feature_columns, train_features_df, other_df, train_csv,
                   inherited_csv, cache, loads>>

\* the Data Insights page: load_data(), then the correlations with SalePrice
SelectInsights ==
    /\ page' = "Data Insights"
    /\ pressed' = "none"
    /\ cache' = CacheAfter(cache, "insights.load_data", load_data(train_csv), FALSE)
    /\ loads' = LoadsAfter(cache, loads, "insights.load_data")
    /\ error' = IF "SalePrice" \in Range(train_csv.columns) THEN "none" ELSE "KeyError"
    /\ NoCalls
    /\ UNCHANGED <<pc, feature_columns, train_features_df, other_df, train_csv,
                   inherited_csv>>

\* the Model Performance page: load_train_data(), the return at lines 85-87
\* when the table has no SalePrice, train_test_split, which raises ValueError
\* on fewer than two rows, then load_model() and the predictions on the split
SelectPerformance ==
    LET c1 == CacheAfter(cache, "performance.load_train_data", load_data(train_csv), FALSE)
        l1 == LoadsAfter(cache, loads, "performance.load_train_data")
        table == c1["performance.load_train_data"].value.table
        target == "SalePrice" \in Range(table.columns)
        split == target /\ Len(table.data) >= 2
    IN  /\ page' = "Model Performance"
        /\ pressed' = "none"
        /\ cache' = IF split
                    THEN CacheAfter(c1, "performance.load_model", HousePriceModel, FALSE)
                    ELSE c1
        /\ loads' = IF split THEN LoadsAfter(c1, l1, "performance.load_model") ELSE l1
        /\ \E raise \in (IF split THEN PredictMayRaise(FrameDrop(table, "SalePrice"))
                                   ELSE {target}) :
            error' = IF raise THEN "ValueError" ELSE "none"
        /\ NoCalls
        /\ UNCHANGED <<pc, feature_columns, train_features_df, other_df, train_csv,
                   inherited_csv>>

\* render() of the predictor page in a run started by the press of button b
\* ("none": by a widget or the radio), with the widget values qw and dw:
\* the two loaders, then the three "if st.button(...)" branches in turn; an
\* exception ends the run where it is raised
PredictorRun(b, qw, dw) ==
    LET lm == "predictor.load_model"
        ltd == "predictor.load_training_data"
        keyError == ~cache[ltd].hit /\ DropRaises(train_csv, "SalePrice")
        quick == ~keyError /\ ButtonPressed("btn_quick", b)
        detailed == ~keyError /\ ButtonPressed("Run Detailed Valuation", b)
        portfolio == ~keyError /\ ButtonPressed("btn_inherited", b)
    IN  /\ cache[ltd].hit \/ loads[ltd] < MaxLoads
        /\ page' = "Price Predictor"
        /\ pressed' = b
        /\ loads' = LoadsAfter(cache, LoadsAfter(cache, loads, lm), ltd)
        /\ \E schema \in {IF cache[ltd].hit THEN cache[ltd].value
                           ELSE IF keyError THEN NotCached.value
                           ELSE load_training_data(train_csv)} :
            /\ cache' = CacheAfter(CacheAfter(cache, lm, HousePriceModel, FALSE),
                                   ltd, schema, keyError)
            /\ feature_columns' = schema.feature_cols
            /\ train_features_df' = schema.table
            /\ \E qdf \in {IF quick
                            THEN build_feature_frame(QuickValues(qw), schema.feature_cols,
                                                     schema.table)
                            ELSE EmptyFrame},
                  ddf \in {IF detailed
                            THEN build_feature_frame(DetailedValues(dw), schema.feature_cols,
                                                     schema.table)
                            ELSE EmptyFrame},
                  ready \in {IF portfolio
                              THEN preprocess_inherited(inherited_csv, schema.feature_cols,
                                                        schema.table)
                              ELSE EmptyFrame},
                  held \in {IF portfolio
                             THEN CallerTable(inherited_csv,
                                    FillMissing(EncodeCategoricals(inherited_csv),
                                                schema.table))
                             ELSE EmptyFrame},
                  raise \in BOOLEAN :
                LET qfail == quick /\ raise /\ Unclean(qdf)
                    dran == detailed /\ ~qfail
                    dfail == dran /\ raise /\ Unclean(ddf)
                    pran == portfolio /\ ~qfail /\ ~dfail
                    pfail == pran /\ raise /\ Unclean(ready)
                IN  /\ raise => (qfail \/ dfail \/ pfail)
                    /\ error' = IF keyError THEN "KeyError"
                                ELSE IF raise THEN "ValueError" ELSE "none"
                    /\ calls' =
                        (IF quick
                         THEN <<Call("build_feature_frame", qdf), Call("predict", qdf)>>
                         ELSE <<>>)
                        \o (IF dran
                            THEN <<Call("build_feature_frame", ddf), Call("predict", ddf)>>
                            ELSE <<>>)
                        \o (IF pran
                            THEN <<Call("preprocess_inherited", ready),
                                   Call("predict", ready)>>
                            ELSE <<>>)
                    /\ user_values' =
                        IF dran
                        THEN CallerValues(DetailedValues(dw),
                                BuiltRow(DetailedValues(dw), schema.feature_cols,
                                         schema.table))
                        ELSE IF quick
                        THEN CallerValues(QuickValues(qw),
                                BuiltRow(QuickValues(qw), schema.feature_cols,
                                         schema.table))
                        ELSE <<>>
                    /\ inherited_df' = IF pran THEN held ELSE EmptyFrame
                    /\ df' = IF pran THEN ready ELSE EmptyFrame
                    /\ result' = IF pran THEN ready
                                 ELSE IF dran THEN ddf
                                 ELSE IF quick THEN qdf ELSE EmptyFrame
                    /\ preds' = IF pran /\ ~pfail THEN Predict(ready)
                                ELSE IF dran /\ ~dfail THEN Predict(ddf)
                                ELSE IF quick /\ ~qfail THEN Predict(qdf) ELSE <<>>
                    /\ out' = IF pran /\ ~pfail
                              THEN Annotate(held, RoundToInt(Predict(ready)))
                              ELSE EmptyFrame
        /\ UNCHANGED <<pc, other_df, train_csv, inherited_csv>>

\* the radio selects the predictor page, or a widget of it changes
SelectPredictor == PredictorRun("none", QuickDefaults, DetailedDefaults)

\* the buttons are on the page once a run of it got past the two loaders
ButtonsShown == page = "Price Predictor" /\ cache["predictor.load_training_data"].hit

\* a press of Generate Valuation
PressQuick ==
    /\ ButtonsShown
    /\ \E qw \in QuickWidgets : PredictorRun("btn_quick", qw, DetailedDefaults)

\* a press of Run Detailed Valuation
PressDetailed ==
    /\ ButtonsShown
    /\ \E dw \in DetailedWidgets : PredictorRun("Run Detailed Valuation", QuickDefaults, dw)

\* a press of Calculate Portfolio Value
PressPortfolio ==
    /\ ButtonsShown
    /\ PredictorRun("btn_inherited", QuickDefaults, DetailedDefaults)

\* the runs of the script over a process lifetime
NextPage ==
    \/ SelectSummary
    \/ SelectInsights
    \/ SelectPerformance
    \/ SelectPredictor
    \/ PressQuick
    \/ PressDetailed
    \/ PressPortfolio

\* the presses of the two valuation buttons only
NextBuild ==
    \/ BuildFeatureFrame
    \/ Rerun

\* the presses of the portfolio button only
NextPreprocess ==
    \/ PreprocessEncode
    \/ PreprocessFill
    \/ PreprocessReindex
    \/ Rerun

\* the portfolio table preprocessed twice in succession
NextRepeat ==
    \/ NextPreprocess
    \/ PreprocessAgain

\* the portfolio table preprocessed, and the returned frame preprocessed again
NextReapply ==
    \/ NextPreprocess
    \/ PreprocessOutput

\* two raw tables preprocessed against the same schema
NextPair ==
    \/ PreprocessPair
    \/ Rerun

Next ==
    \/ NextBuild
    \/ NextRepeat
    \/ NextReapply
    \/ NextPair
    \/ NextPage

SpecBuild == Init /\ [][NextBuild]_vars

SpecPreprocess == Init /\ [][NextPreprocess]_vars

SpecRepeat == Init /\ [][NextRepeat]_vars

SpecReapply == Init /\ [][NextReapply]_vars

SpecPair == InitPair /\ [][NextPair]_vars

SpecPage == InitPage /\ [][NextPage]_vars

Spec == Init /\ [][Next]_vars

-----------------------------------------------------------------------------
(* Vocabulary of the properties *)

\* the training table has a column of this name, all of whose cells are
\* numbers or missing and one of whose cells is a number
HasTrainingMedian(name) ==
    /\ name \in Range(train_features_df.columns)
    /\ \A i \in 1..Len(train_features_df.data) : train_features_df.data[i][name].kind # "str"
    /\ \E i \in 1..Len(train_features_df.data) : train_features_df.data[i][name].kind = "num"

\* m is a number with at least half of the column's numbers on either side
IsMedianOfTraining(m, name) ==
    LET present == {i \in 1..Len(train_features_df.data) :
                        train_features_df.data[i][name].kind = "num"}
    IN  /\ m.kind = "num"
        /\ 2 * Cardinality({i \in present : train_features_df.data[i][name].num <= m.num})
                >= Cardinality(present)
        /\ 2 * Cardinality({i \in present : train_features_df.data[i][name].num >= m.num})
                >= Cardinality(present)

\* the median the training table gives a column that has one
TrainingMedian(name) == FrameMedian(train_features_df)[name]

\* user_values without the keys that are not feature columns
KnownUserValues == [key \in DOMAIN user_values \cap Range(feature_columns) |-> user_values[key]]

-----------------------------------------------------------------------------
(* build_feature_frame *)

\* C1: build_feature_frame returns exactly one row whose columns are exactly
\* feature_columns, in the same order, and no cell of that row is missing.
BuildFrameComplete ==
    pc = "built" =>
        /\ result.columns = feature_columns
        /\ Len(result.data) = 1
        /\ DOMAIN result.data[1] = Range(feature_columns)
        /\ \A col \in Range(feature_columns) : ~IsNull(result.data[1][col])

\* a two-column build in which one column's user value is missing and the
\* other column's training median is undefined
BuildFrameCompleteWitness ==
    /\ pc = "built"
    /\ Len(feature_columns) = 2
    /\ \E a, b \in Range(feature_columns) :
        /\ a # b
        /\ a \in DOMAIN user_values /\ IsNull(user_values[a])
        /\ b \notin DOMAIN user_values
        /\ b \in Range(train_features_df.columns)
        /\ \A i \in 1..Len(train_features_df.data) : IsNull(train_features_df.data[i][b])
        /\ Len(train_features_df.data) > 0

\* C2 as stated: for every feature name that has a training median and is a
\* key of user_values, the output value equals the user_values entry.
OverridePrecedenceAsStated ==
    pc = "built" =>
        \A name \in Range(feature_columns) \cap DOMAIN user_values :
            HasTrainingMedian(name) => result.data[1][name] = user_values[name]

\* C2 amended: for every feature name that has a training median and is a key
\* of user_values, the output value equals the user_values entry, never the
\* median, unless that entry is null/NaN, and then the output value is 0.
OverridePrecedence ==
    pc = "built" =>
        \A name \in Range(feature_columns) \cap DOMAIN user_values :
            HasTrainingMedian(name) =>
                result.data[1][name] =
                    IF IsNull(user_values[name]) THEN Num(0) ELSE user_values[name]

\* a user value overrides a different training median
OverridePrecedenceWitness ==
    /\ pc = "built"
    /\ \E name \in Range(feature_columns) \cap DOMAIN user_values :
        /\ HasTrainingMedian(name)
        /\ ~IsNull(user_values[name])
        /\ user_values[name] # TrainingMedian(name)
        /\ result.data[1][name] = user_values[name]

\* C3: for every feature name that is not a key of user_values but has a
\* training median, the output value equals that median exactly.
MedianFallback ==
    pc = "built" =>
        \A name \in Range(feature_columns) \ DOMAIN user_values :
            HasTrainingMedian(name) =>
                /\ result.data[1][name] = TrainingMedian(name)
                /\ IsMedianOfTraining(result.data[1][name], name)

\* the median is the mean of two different training values, and is output
MedianFallbackWitness ==
    /\ pc = "built"
    /\ user_values # <<>>
    /\ \E name \in Range(feature_columns) \ DOMAIN user_values :
        /\ HasTrainingMedian(name)
        /\ Len(train_features_df.data) = 2
        /\ train_features_df.data[1][name] = Num(4)
        /\ train_features_df.data[2][name] = Num(2)
        /\ result.data[1][name] = Num(3)

\* C4: for every feature name that is neither a key of user_values nor has a
\* training median, the output value is 0.
ZeroFallback ==
    pc = "built" =>
        \A name \in Range(feature_columns) \ DOMAIN user_values :
            ~HasTrainingMedian(name) => result.data[1][name] = Num(0)

\* one feature is a text column of the training table, another is no column
\* of it, neither is a user key, and both are output as 0
ZeroFallbackWitness ==
    /\ pc = "built"
    /\ \E a, b \in Range(feature_columns) \ DOMAIN user_values :
        /\ a \in Range(train_features_df.columns)
        /\ \E i \in 1..Len(train_features_df.data) : train_features_df.data[i][a].kind = "str"
        /\ b \notin Range(train_features_df.columns)
        /\ result.data[1][a] = Num(0)
        /\ result.data[1][b] = Num(0)

\* C5: user_values keys that are not in feature_columns are dropped: they add
\* no column, and the output equals the output obtained from user_values with
\* those keys removed.
UnknownKeysDropped ==
    pc = "built" =>
        /\ Range(result.columns) \cap (DOMAIN user_values \ Range(feature_columns)) = {}
        /\ \A i \in 1..Len(result.data) : DOMAIN result.data[i] = Range(feature_columns)
        /\ result = build_feature_frame(KnownUserValues, feature_columns, train_features_df)

\* a build whose user_values holds a known key and an unknown key
UnknownKeysDroppedWitness ==
    /\ pc = "built"
    /\ feature_columns # <<>>
    /\ DOMAIN user_values \ Range(feature_columns) # {}
    /\ DOMAIN user_values \cap Range(feature_columns) # {}
    /\ \E key \in DOMAIN user_values \ Range(feature_columns) : ~IsNull(user_values[key])

\* C14: build_feature_frame handles the degenerate inputs: with empty
\* user_values every output value is the training median of its column, or 0
\* where no median exists; with empty feature_columns the output is one row
\* with no columns.
DegenerateBuild ==
    pc = "built" =>
        /\ user_values = <<>> =>
            /\ Len(result.data) = 1
            /\ \A name \in Range(feature_columns) :
                result.data[1][name] =
                    IF HasTrainingMedian(name) THEN TrainingMedian(name) ELSE Num(0)
        /\ feature_columns = <<>> =>
            /\ result.columns = <<>>
            /\ Len(result.data) = 1
            /\ DOMAIN result.data[1] = {}

\* a build without user values whose row holds a median and a 0
DegenerateBuildWitness ==
    /\ pc = "built"
    /\ user_values = <<>>
    /\ \E a, b \in Range(feature_columns) :
        /\ HasTrainingMedian(a) /\ result.data[1][a] = Num(4)
        /\ ~HasTrainingMedian(b) /\ result.data[1][b] = Num(0)

\* C19: when user_values maps a name of feature_columns to a null/NaN value,
\* the output value for that name is 0, also when a training median exists for
\* that name.
NullUserValueZero ==
    pc = "built" =>
        \A name \in Range(feature_columns) \cap DOMAIN user_values :
            IsNull(user_values[name]) => result.data[1][name] = Num(0)

\* a null user value for a feature whose training median is 4
NullUserValueZeroWitness ==
    /\ pc = "built"
    /\ \E name \in Range(feature_columns) \cap DOMAIN user_values :
        /\ IsNull(user_values[name])
        /\ HasTrainingMedian(name)
        /\ TrainingMedian(name) = Num(4)
        /\ result.data[1][name] = Num(0)

-----------------------------------------------------------------------------
(* preprocess_inherited *)

\* the labels of a recognized categorical column, lowest rank first
RankOrder(col) ==
    CASE col = "BsmtExposure" -> <<"No", "Mn", "Av", "Gd">>
      [] col = "BsmtFinType1" -> <<"Unf", "LwQ", "Rec", "BLQ", "ALQ", "GLQ">>
      [] col = "GarageFinish" -> <<"Unf", "RFn", "Fin">>
      [] col = "KitchenQual" -> <<"Po", "Fa", "TA", "Gd", "Ex">>

\* the rank of the lowest label, and the rank of a cell that holds no label
LowestRank(col) == IF col = "KitchenQual" THEN 1 ELSE 0
DefaultRank(col) == IF col = "KitchenQual" THEN 3 ELSE 0

IsLabelOf(col, cell) == cell.kind = "str" /\ cell.txt \in Range(RankOrder(col))

\* the place of a label in its column's order
Place(col, label) == CHOOSE k \in 1..Len(RankOrder(col)) : RankOrder(col)[k] = label

RawRows == 1..Len(inherited_df.data)
RawColumns == Range(inherited_df.columns)

\* the cell of the running or finished call at (i, col): df between the steps,
\* the returned frame after the return
Encoded(i, col) == IF pc = "preprocessed" THEN result.data[i][col] ELSE df.data[i][col]
Visible(col) == pc \in {"fill", "reindex"} \/ (pc = "preprocessed" /\ col \in Range(feature_columns))

\* C6 as stated: preprocess_inherited returns as many rows as the raw table
\* and exactly the columns of feature_columns in that order, and no cell of
\* the result is missing, also when a column's training median is undefined.
PreprocessNoMissing ==
    pc = "preprocessed" =>
        /\ Len(result.data) = Len(inherited_df.data)
        /\ result.columns = feature_columns
        /\ \A i \in 1..Len(result.data) :
            /\ DOMAIN result.data[i] = Range(feature_columns)
            /\ \A col \in Range(feature_columns) : ~IsNull(result.data[i][col])

\* C7: every cell of a recognized categorical column whose value is not a key
\* of the column's encoding table, a missing cell included, is replaced by the
\* column's default rank (0, 0, 0, and 3 for KitchenQual); it never stays
\* missing.
UnknownLabelDefault ==
    \A col \in CategoricalColumns \cap RawColumns : \A i \in RawRows :
        (Visible(col) /\ ~IsLabelOf(col, inherited_df.data[i][col])) =>
            Encoded(i, col) = Num(DefaultRank(col))

\* KitchenQual is returned with rank 3 for a missing cell and for a cell that
\* holds an unknown text or a number
UnknownLabelDefaultWitness ==
    /\ pc = "preprocessed"
    /\ "KitchenQual" \in Range(feature_columns) \cap RawColumns
    /\ Len(inherited_df.data) = 2
    /\ IsNull(inherited_df.data[1]["KitchenQual"])
    /\ inherited_df.data[2]["KitchenQual"] \in {Str("XYZ"), Num(1)}
    /\ result.data[1]["KitchenQual"] = Num(3)
    /\ result.data[2]["KitchenQual"] = Num(3)

\* C8: every cell of a recognized categorical column whose text is a key of
\* the column's encoding table is replaced by the table's rank for that label
\* (the labels in their order, counted from 0, from 1 for KitchenQual), so
\* the order of the labels is kept.
KnownLabelRank ==
    \A col \in CategoricalColumns \cap RawColumns : \A i \in RawRows :
        (Visible(col) /\ IsLabelOf(col, inherited_df.data[i][col])) =>
            /\ Encoded(i, col) =
                Num(Place(col, inherited_df.data[i][col].txt) - 1 + LowestRank(col))
            /\ \A j \in RawRows :
                (/\ IsLabelOf(col, inherited_df.data[j][col])
                 /\ Place(col, inherited_df.data[i][col].txt)
                        < Place(col, inherited_df.data[j][col].txt))
                    => Encoded(i, col).num < Encoded(j, col).num

\* two rows of KitchenQual, Ex above Po, are returned as 5 and 1
KnownLabelRankWitness ==
    /\ pc = "preprocessed"
    /\ "KitchenQual" \in Range(feature_columns) \cap RawColumns
    /\ Len(inherited_df.data) = 2
    /\ inherited_df.data[1]["KitchenQual"] = Str("Ex")
    /\ inherited_df.data[2]["KitchenQual"] = Str("Po")
    /\ result.data[1]["KitchenQual"] = Num(5)
    /\ result.data[2]["KitchenQual"] = Num(1)

\* the training table has a numeric column of this name (medians.index)
InMedians(col) ==
    /\ col \in Range(train_features_df.columns)
    /\ Len(train_features_df.data) > 0
    /\ \A i \in 1..Len(train_features_df.data) : train_features_df.data[i][col].kind # "str"

\* C9 as stated: for every column present in the raw table, each missing cell
\* is filled with the column's training median when the column is in the
\* Schema Reference, and with 0 otherwise.
MedianFillAsStated ==
    pc = "reindex" =>
        \A col \in RawColumns : \A i \in RawRows :
            IsNull(inherited_df.data[i][col]) =>
                df.data[i][col] = IF InMedians(col) THEN TrainingMedian(col) ELSE Num(0)

\* C9 amended: for every column present in the raw table other than the four
\* recognized categorical columns, each missing cell is filled with the
\* column's training median when the training table has a numeric column of
\* that name (a median that is itself undefined leaves the cell missing), and
\* with 0 otherwise; a missing cell of a recognized categorical column holds
\* the column's default rank, whatever the column's training median.
MedianFill ==
    pc = "reindex" =>
        \A col \in RawColumns : \A i \in RawRows :
            IsNull(inherited_df.data[i][col]) =>
                df.data[i][col] =
                    IF col \in CategoricalColumns THEN Num(DefaultRank(col))
                    ELSE IF HasTrainingMedian(col) THEN TrainingMedian(col)
                    ELSE IF InMedians(col) THEN NaN
                    ELSE Num(0)

\* a missing GrLivArea cell is filled with the mean of the two training values
MedianFillWitness ==
    /\ pc = "reindex"
    /\ "GrLivArea" \in RawColumns
    /\ Len(inherited_df.data) = 2
    /\ IsNull(inherited_df.data[1]["GrLivArea"])
    /\ inherited_df.data[2]["GrLivArea"] = Num(1)
    /\ Len(train_features_df.data) = 2
    /\ "GrLivArea" \in Range(train_features_df.columns)
    /\ train_features_df.data[1]["GrLivArea"] = Num(2)
    /\ train_features_df.data[2]["GrLivArea"] = Num(4)
    /\ df.data[1]["GrLivArea"] = Num(3)
    /\ df.data[2]["GrLivArea"] = Num(1)

\* C10: a raw-table column that is not in feature_columns does not appear in
\* the output, and a feature_columns name that is no column of the raw table
\* appears in the output with value 0 in every row, not the training median.
ColumnAlignment ==
    pc = "preprocessed" =>
        /\ Range(result.columns) \cap (RawColumns \ Range(feature_columns)) = {}
        /\ Len(result.data) = Len(inherited_df.data)
        /\ \A i \in RawRows :
            /\ DOMAIN result.data[i] \cap (RawColumns \ Range(feature_columns)) = {}
            /\ \A col \in Range(feature_columns) \ RawColumns :
                /\ col \in DOMAIN result.data[i]
                /\ result.data[i][col] = Num(0)

\* a raw column outside feature_columns is dropped while a feature column the
\* raw table lacks, whose training median is not 0, is created holding 0
ColumnAlignmentWitness ==
    /\ pc = "preprocessed"
    /\ Len(inherited_df.data) > 0
    /\ RawColumns \ Range(feature_columns) # {}
    /\ \E col \in Range(feature_columns) \ RawColumns :
        /\ HasTrainingMedian(col)
        /\ TrainingMedian(col) # Num(0)
        /\ result.data[1][col] = Num(0)

\* C13 as stated: preprocess_inherited never raises because of unknown or
\* missing data in the raw table (unknown labels, missing cells, missing or
\* extra columns): it returns a row for every raw row, and in it every
\* affected cell holds a default value: a created column 0, an unknown or
\* missing label the default rank, any other missing cell a number.
DegradesToDefault ==
    pc = "preprocessed" =>
        /\ Len(result.data) = Len(inherited_df.data)
        /\ Range(result.columns) \cap (RawColumns \ Range(feature_columns)) = {}
        /\ \A i \in RawRows : \A col \in Range(feature_columns) :
            /\ col \notin RawColumns => result.data[i][col] = Num(0)
            /\ (col \in RawColumns \cap CategoricalColumns
                    /\ ~IsLabelOf(col, inherited_df.data[i][col]))
                => result.data[i][col] = Num(DefaultRank(col))
            /\ (col \in RawColumns \ CategoricalColumns
                    /\ IsNull(inherited_df.data[i][col]))
                => result.data[i][col].kind = "num"

\* C18 as stated: every cell of the matrix preprocess_inherited returns is
\* numeric (a number, or the float NaN), for any raw table: text in a raw
\* column that is in feature_columns but is not one of the four recognized
\* categorical columns never reaches the output as text.
OutputNumeric ==
    pc = "preprocessed" =>
        \A i \in 1..Len(result.data) : \A col \in Range(feature_columns) :
            result.data[i][col].kind # "str"

\* C20: the encoding runs before the gap filling, so a missing cell of a
\* recognized categorical column holds the column's default rank (0 or 3) from
\* the end of the encoding on, through the fill and in the returned frame, and
\* never the column's training median, even when the training table has one.
MissingCategoricalDefault ==
    \A col \in CategoricalColumns \cap RawColumns : \A i \in RawRows :
        IsNull(inherited_df.data[i][col]) =>
            /\ pc \in {"fill", "reindex"} => df.data[i][col] = Num(DefaultRank(col))
            /\ (pc = "preprocessed" /\ col \in Range(feature_columns))
                => result.data[i][col] = Num(DefaultRank(col))

\* a missing KitchenQual cell is returned as 3 although the training median
\* of KitchenQual is 4
MissingCategoricalDefaultWitness ==
    /\ pc = "preprocessed"
    /\ "KitchenQual" \in Range(feature_columns) \cap RawColumns
    /\ Len(inherited_df.data) > 0
    /\ IsNull(inherited_df.data[1]["KitchenQual"])
    /\ HasTrainingMedian("KitchenQual")
    /\ TrainingMedian("KitchenQual") = Num(4)
    /\ result.data[1]["KitchenQual"] = Num(3)

\* C11: calling preprocess_inherited twice in succession with the same raw
\* table, the same feature_columns and the same training table yields two
\* identical outputs: the first call leaves nothing behind, in the table it was
\* handed or in the encoding tables, that changes the second call's result.
RepeatSameOutput ==
    pc = "repeated" => df = result

\* the second call returns the ranks 5 and 3 the first call returned for a
\* KitchenQual column holding Ex and a missing cell
RepeatSameOutputWitness ==
    /\ pc = "repeated"
    /\ "KitchenQual" \in Range(feature_columns) \cap RawColumns
    /\ Len(inherited_df.data) = 2
    /\ inherited_df.data[1]["KitchenQual"] = Str("Ex")
    /\ IsNull(inherited_df.data[2]["KitchenQual"])
    /\ result.data[1]["KitchenQual"] = Num(5)
    /\ df.data[1]["KitchenQual"] = Num(5)
    /\ df.data[2]["KitchenQual"] = Num(3)

\* C23: preprocess_inherited keeps rows and present values in place: for every
\* row index i and every column that is in the raw table and in
\* feature_columns and is not one of the four recognized categorical columns,
\* a non-missing raw cell at (i, column) is unchanged at (i, column) of the
\* output; rows are neither reordered, dropped nor duplicated.
PresentValuesKept ==
    pc = "preprocessed" =>
        /\ Len(result.data) = Len(inherited_df.data)
        /\ \A i \in RawRows :
            \A col \in (RawColumns \cap Range(feature_columns)) \ CategoricalColumns :
                ~IsNull(inherited_df.data[i][col]) =>
                    result.data[i][col] = inherited_df.data[i][col]

\* two rows whose GrLivArea cells differ, a number above a text, are returned
\* in their places although the training table has another median
PresentValuesKeptWitness ==
    /\ pc = "preprocessed"
    /\ "GrLivArea" \in RawColumns \cap Range(feature_columns)
    /\ Len(inherited_df.data) = 2
    /\ inherited_df.data[1]["GrLivArea"] = Num(1)
    /\ inherited_df.data[2]["GrLivArea"] = Str("XYZ")
    /\ HasTrainingMedian("GrLivArea")
    /\ result.data[1]["GrLivArea"] = Num(1)
    /\ result.data[2]["GrLivArea"] = Str("XYZ")

-----------------------------------------------------------------------------
(* The pages *)

\* the last run of the script was a run of the predictor page
PredictorRan == page = "Price Predictor"
TargetMissing == "SalePrice" \notin Range(train_csv.columns)

LoadedAtMostOnce ==
    /\ loads["predictor.load_model"] + loads["performance.load_model"] <= 1
    /\ loads["predictor.load_training_data"] + loads["performance.load_train_data"]
            + loads["insights.load_data"] <= 1

\* C16: on the predictor page every button press triggers exactly one
\* execution of build_feature_frame (the two valuation buttons) or of
\* preprocess_inherited (the portfolio button), which returns before exactly
\* one call of model.predict on the frame it returned; with no button
\* pressed none of the three runs.
OneCallPerPress ==
    PredictorRan =>
        /\ pressed \in {"btn_quick", "Run Detailed Valuation"} =>
            /\ calls = <<Call("build_feature_frame", result), Call("predict", result)>>
            /\ result = build_feature_frame(user_values, feature_columns, train_features_df)
        /\ pressed = "btn_inherited" =>
            /\ calls = <<Call("preprocess_inherited", result), Call("predict", result)>>
            /\ result = preprocess_inherited(inherited_csv, feature_columns,
                                             train_features_df)
        /\ pressed = "none" => calls = <<>>

\* a portfolio press whose one call of predict got the two encoded rows
OneCallPerPressWitness ==
    /\ PredictorRan
    /\ pressed = "btn_inherited"
    /\ Len(calls) = 2
    /\ calls[2].fn = "predict"
    /\ Len(calls[2].frame.data) = 2
    /\ "KitchenQual" \in Range(calls[2].frame.columns)
    /\ "KitchenQual" \in Range(inherited_csv.columns)

\* C17: in batch mode, whenever model.predict returns, the result holds one
\* predicted value per row of the raw table, and the displayed table is the
\* raw table as read (its columns and cell values, not the encoded or filled
\* ones) with row i annotated with the prediction made for row i, rounded to
\* an integer.
BatchAnnotated ==
    (PredictorRan /\ pressed = "btn_inherited" /\ error = "none") =>
        /\ Len(preds) = Len(inherited_csv.data)
        /\ out.columns = inherited_csv.columns \o <<"Predicted_Value">>
        /\ Len(out.data) = Len(inherited_csv.data)
        /\ \A i \in 1..Len(inherited_csv.data) :
            /\ \A c \in Range(inherited_csv.columns) :
                out.data[i][c] = inherited_csv.data[i][c]
            /\ preds[i] = PriceInHalves(result.data[i], result.columns, 1)
            /\ out.data[i]["Predicted_Value"] = Num(RoundHalfEven(preds[i]))

\* two rows, Ex and an unknown text in KitchenQual, are displayed as read,
\* beside the different prices of their ranks 5 and 3
BatchAnnotatedWitness ==
    /\ PredictorRan /\ pressed = "btn_inherited" /\ error = "none"
    /\ Len(inherited_csv.data) = 2
    /\ "KitchenQual" \in Range(inherited_csv.columns) \cap Range(feature_columns)
    /\ out.data[1]["KitchenQual"] = Str("Ex")
    /\ out.data[2]["KitchenQual"] = Str("XYZ")
    /\ result.data[1]["KitchenQual"] = Num(5)
    /\ result.data[2]["KitchenQual"] = Num(3)
    /\ out.data[1]["Predicted_Value"] = Num(8)
    /\ out.data[2]["Predicted_Value"] = Num(4)

\* C22: preprocess_inherited and build_feature_frame leave their arguments
\* unchanged: after the call the raw table still has the columns, text labels
\* and missing cells it was read with, user_values is what the widgets gave,
\* and feature_columns and the training table are what load_training_data
\* derived from the file. (The four encoding tables are only read.)
ArgumentsUnchanged ==
    PredictorRan =>
        /\ pressed = "btn_inherited" => inherited_df = inherited_csv
        /\ pressed = "btn_quick" => user_values \in {QuickValues(w) : w \in QuickWidgets}
        /\ pressed = "Run Detailed Valuation" =>
            user_values \in {DetailedValues(w) : w \in DetailedWidgets}
        /\ pressed # "none" =>
            /\ feature_columns = load_training_data(train_csv).feature_cols
            /\ train_features_df = load_training_data(train_csv).table
            /\ cache["predictor.load_training_data"].value = load_training_data(train_csv)

\* after a portfolio press the raw table still holds the label Ex and the
\* missing cell it was read with, while the returned matrix holds 5 and 3
ArgumentsUnchangedWitness ==
    /\ PredictorRan /\ pressed = "btn_inherited"
    /\ "KitchenQual" \in Range(inherited_csv.columns) \cap Range(feature_columns)
    /\ Len(inherited_csv.data) = 2
    /\ inherited_df.data[1]["KitchenQual"] = Str("Ex")
    /\ IsNull(inherited_df.data[2]["KitchenQual"])
    /\ result.data[1]["KitchenQual"] = Num(5)
    /\ result.data[2]["KitchenQual"] = Num(3)

\* the two raw tables have the same rows and agree on every column named in
\* feature_columns: each such column is in both with the same cells, or in
\* neither
AgreeOnFeatures ==
    /\ Len(inherited_df.data) = Len(other_df.data)
    /\ \A col \in Range(feature_columns) :
        /\ col \in Range(inherited_df.columns) <=> col \in Range(other_df.columns)
        /\ col \in Range(inherited_df.columns) =>
            \A i \in 1..Len(inherited_df.data) :
                inherited_df.data[i][col] = other_df.data[i][col]

====
